---------------------------- MODULE Spec2Model ----------------------------
(***************************************************************************)
(* Model of SunriseSunset.py: the date-expression normaliser               *)
(* transform_date, the UTC-offset validation of get_utc_offset, and the    *)
(* exit/output behaviour of main and print_sunrise_sunset_data.            *)
(*                                                                         *)
(* Strings are sequences of one-character strings.  Calendar dates are     *)
(* triples <<year, month, day>>.                                           *)
(***************************************************************************)
EXTENDS Integers, Sequences, FiniteSets, TLC

VARIABLES
    today,            \* date.today() of the run (line 225)
    zero_pad_year,    \* whether the platform's strftime("%Y") pads to 4 digits
    arg,              \* the date expression handed to transform_date
    use_DDMMformat,   \* the --DDMMformat flag
    result,           \* outcome of the last transform_date call
    prev,             \* the input and outcome of the call before the input was changed
    rel,              \* how the current input was derived from the previous one
    edits,            \* number of case/whitespace edits applied so far
    pc,               \* position of the run
    api_key,          \* main: the api_key argument
    latlng,           \* main: <<latitude, longitude>> or NoLocation
    tz_response,      \* main: the TimeZoneDB response get_utc_offset received
    utc_offset,       \* main: outcome of get_utc_offset
    fetch_called,     \* main: whether the sunrise-sunset provider was requested
    stdout,           \* main: lines printed to standard output
    exception,        \* main: uncaught exception that ended the run, or "none"
    exit_code         \* main: the process exit code, -1 while running

vars == <<today, zero_pad_year, arg, use_DDMMformat, result, prev, rel, edits,
          pc, api_key, latlng, tz_response, utc_offset, fetch_called, stdout, exception,
          exit_code>>

dateVars == <<today, zero_pad_year, arg, use_DDMMformat, result, prev, rel, edits>>
mainVars == <<api_key, latlng, tz_response, utc_offset, fetch_called, stdout, exception, exit_code>>

---------------------------------------------------------------------------
(* Characters and integers *)

Digits == <<"0", "1", "2", "3", "4", "5", "6", "7", "8", "9">>
Digit == {Digits[i] : i \in 1..10}
NonZeroDigit == Digit \ {"0"}
Whitespace == {" ", "\t"}

DigitVal(c) == (CHOOSE i \in 1..10 : Digits[i] = c) - 1

\* str.lower() on one character of the alphabet
LowerChar(c) == IF c = "T" THEN "t" ELSE IF c = "F" THEN "f" ELSE IF c = "O" THEN "o" ELSE c

\* int() of an unsigned digit string; int() ignores surrounding whitespace
RECURSIVE DigitsToInt(_)
DigitsToInt(s) ==
    IF s = <<>> THEN 0
    ELSE IF s[Len(s)] \in Whitespace THEN DigitsToInt(SubSeq(s, 1, Len(s) - 1))
    ELSE IF s[1] \in Whitespace THEN DigitsToInt(Tail(s))
    ELSE 10 * DigitsToInt(SubSeq(s, 1, Len(s) - 1)) + DigitVal(s[Len(s)])

\* int(offset) for offset = [+-]\d+  (IntSignIgnored: the sign dropped)
IntSignIgnored(s) == DigitsToInt(Tail(s))
SignedToInt(s) == IF s[1] = "-" THEN 0 - DigitsToInt(Tail(s)) ELSE DigitsToInt(Tail(s))

\* decimal digits of a natural number, str(n)
RECURSIVE NatToStr(_)
NatToStr(n) == IF n < 10 THEN <<Digits[n + 1]>> ELSE NatToStr(n \div 10) \o <<Digits[(n % 10) + 1]>>

RECURSIVE ZeroPad(_, _)
ZeroPad(s, w) == IF Len(s) >= w THEN s ELSE ZeroPad(<<"0">> \o s, w)

---------------------------------------------------------------------------
(* datetime.date: the proleptic Gregorian calendar *)

MINYEAR == 1
MAXYEAR == 9999
MAXORDINAL == 3652059
MAXDELTADAYS == 999999999
DEFAULTYEAR == 1900

IsLeap(y) == y % 4 = 0 /\ (y % 100 # 0 \/ y % 400 = 0)

DaysInMonth(y, m) ==
    IF m = 2 THEN (IF IsLeap(y) THEN 29 ELSE 28)
    ELSE IF m \in {4, 6, 9, 11} THEN 30 ELSE 31

\* date(year, month, day) raises ValueError unless this holds
ValidDate(y, m, d) ==
    /\ y >= MINYEAR /\ y <= MAXYEAR
    /\ m >= 1 /\ m <= 12
    /\ d >= 1 /\ d <= DaysInMonth(y, m)

DaysBeforeYear(y) == (y - 1) * 365 + (y - 1) \div 4 - (y - 1) \div 100 + (y - 1) \div 400

RECURSIVE DaysBeforeMonth(_, _)
DaysBeforeMonth(y, m) == IF m = 1 THEN 0 ELSE DaysBeforeMonth(y, m - 1) + DaysInMonth(y, m - 1)

\* date.toordinal(): 0001-01-01 is day 1
ToOrdinal(dt) == DaysBeforeYear(dt[1]) + DaysBeforeMonth(dt[1], dt[2]) + dt[3]

\* date.fromordinal()
FromOrdinal(o) ==
    LET y0 == (o - 1) \div 366 + 1
        y == CHOOSE yy \in y0..(y0 + 30) :
                 DaysBeforeYear(yy) < o /\ o <= DaysBeforeYear(yy + 1)
        r == o - DaysBeforeYear(y)
        m == CHOOSE mm \in 1..12 :
                 DaysBeforeMonth(y, mm) < r /\ r <= DaysBeforeMonth(y, mm) + DaysInMonth(y, mm)
    IN <<y, m, r - DaysBeforeMonth(y, m)>>

\* date.strftime("%Y-%m-%d"); glibc's %Y does not pad years below 1000
Strftime(dt, pad) ==
    (IF pad THEN ZeroPad(NatToStr(dt[1]), 4) ELSE NatToStr(dt[1]))
    \o <<"-">> \o ZeroPad(NatToStr(dt[2]), 2) \o <<"-">> \o ZeroPad(NatToStr(dt[3]), 2)

---------------------------------------------------------------------------
(* datetime.strptime: the format directives as the regular expressions of   *)
(* the standard library, matched left to right with ordered alternatives    *)

Directives == {"%Y", "%m", "%d"}

\* each directive's alternatives, in the order the regular expression lists them
DirAlts(tok) ==
    IF tok = "%d" THEN << <<{"3"}, {"0", "1"}>>, <<{"1", "2"}, Digit>>, <<{"0"}, NonZeroDigit>>,
                          <<NonZeroDigit>>, <<{" "}, NonZeroDigit>> >>
    ELSE IF tok = "%m" THEN << <<{"1"}, {"0", "1", "2"}>>, <<{"0"}, NonZeroDigit>>, <<NonZeroDigit>> >>
    ELSE << <<Digit, Digit, Digit, Digit>> >>

MatchesAt(alt, s, pos) ==
    /\ pos + Len(alt) - 1 <= Len(s)
    /\ \A k \in 1..Len(alt) : s[pos + k - 1] \in alt[k]

NoMatch == [ok |-> FALSE, end |-> 0, found |-> [t \in Directives |-> -1]]

\* re.match of the compiled format from token k of fmt at position pos of s:
\* the first match in backtracking order, or NoMatch
RECURSIVE ReMatch(_, _, _, _, _)
RECURSIVE TryAlts(_, _, _, _, _, _)
ReMatch(fmt, k, s, pos, found) ==
    IF k > Len(fmt) THEN [ok |-> TRUE, end |-> pos, found |-> found]
    ELSE IF fmt[k] \in Directives THEN TryAlts(fmt, k, s, pos, found, 1)
    ELSE IF pos <= Len(s) /\ s[pos] = fmt[k] THEN ReMatch(fmt, k + 1, s, pos + 1, found)
    ELSE NoMatch
TryAlts(fmt, k, s, pos, found, a) ==
    LET alts == DirAlts(fmt[k]) IN
    IF a > Len(alts) THEN NoMatch
    ELSE IF MatchesAt(alts[a], s, pos)
         THEN LET n == Len(alts[a])
                  r == ReMatch(fmt, k + 1, s, pos + n,
                               [found EXCEPT ![fmt[k]] = DigitsToInt(SubSeq(s, pos, pos + n - 1))])
              IN IF r.ok THEN r ELSE TryAlts(fmt, k, s, pos, found, a + 1)
         ELSE TryAlts(fmt, k, s, pos, found, a + 1)

ParseFailed == [ok |-> FALSE, date |-> <<0, 0, 0>>]

\* datetime.strptime(s, fmt): ValueError (ParseFailed) when the format does not
\* match, when unconverted data remains, or when datetime(year, month, day)
\* rejects the fields; a format without %Y yields the year 1900
\* (StrptimePrefix: unconverted data accepted)
StrptimePrefix(s, fmt) ==
    LET r == ReMatch(fmt, 1, s, 1, [t \in Directives |-> -1])
        y == IF r.found["%Y"] = -1 THEN DEFAULTYEAR ELSE r.found["%Y"]
    IN IF r.ok /\ ValidDate(y, r.found["%m"], r.found["%d"])
       THEN [ok |-> TRUE, date |-> <<y, r.found["%m"], r.found["%d"]>>]
       ELSE ParseFailed
Strptime(s, fmt) ==
    LET r == ReMatch(fmt, 1, s, 1, [t \in Directives |-> -1])
        y == IF r.found["%Y"] = -1 THEN DEFAULTYEAR ELSE r.found["%Y"]
    IN IF ~r.ok THEN ParseFailed
       ELSE IF r.end # Len(s) + 1 THEN ParseFailed
       ELSE IF ~ValidDate(y, r.found["%m"], r.found["%d"]) THEN ParseFailed
       ELSE [ok |-> TRUE, date |-> <<y, r.found["%m"], r.found["%d"]>>]

---------------------------------------------------------------------------
(* transform_date *)

\* ''.join(arg.lower().split())  (NormalizeKeepsCase: without lower())
NormalizeKeepsCase(s) == SelectSeq(s, LAMBDA c : c \notin Whitespace)
RECURSIVE NormalizeArg(_)
NormalizeArg(s) ==
    IF s = <<>> THEN <<>>
    ELSE IF s[1] \in Whitespace THEN NormalizeArg(Tail(s))
    ELSE <<LowerChar(s[1])>> \o NormalizeArg(Tail(s))

\* re.fullmatch(r't([+-]\d+)?', a)
RelativeMatch(a) ==
    /\ Len(a) >= 1 /\ a[1] = "t"
    /\ \/ Len(a) = 1
       \/ /\ Len(a) >= 3
          /\ a[2] \in {"+", "-"}
          /\ \A k \in 3..Len(a) : a[k] \in Digit

DayFirstFormats == << <<"%d", "/", "%m">>, <<"%d", "-", "%m">>, <<"%Y", "-", "%d", "-", "%m">>,
                      <<"%d", "/", "%m", "/", "%Y">>, <<"%d", "-", "%m", "-", "%Y">> >>
\* (MonthFirstYearDayMonth: the year-first format of the day-first list)
MonthFirstYearDayMonth == << <<"%m", "/", "%d">>, <<"%m", "-", "%d">>, <<"%Y", "-", "%d", "-", "%m">>,
                             <<"%m", "/", "%d", "/", "%Y">>, <<"%m", "-", "%d", "-", "%Y">> >>
MonthFirstFormats == << <<"%m", "/", "%d">>, <<"%m", "-", "%d">>, <<"%Y", "-", "%m", "-", "%d">>,
                        <<"%m", "/", "%d", "/", "%Y">>, <<"%m", "-", "%d", "-", "%Y">> >>

\* the formats whose result gets the current year (line 261)
YearReplacedFormats == {<<"%d", "/", "%m">>, <<"%d", "-", "%m">>}

Returned(text) == [kind |-> "str", text |-> text]
Raised(exc, text) == [kind |-> exc, text |-> text]

\* today + timedelta(days=n), then strftime (lines 239-244)
RelativeDate(tdy, n, pad) ==
    LET o == ToOrdinal(tdy) + n IN
    IF n > MAXDELTADAYS \/ n < 0 - MAXDELTADAYS THEN Raised("OverflowError", <<>>)
    ELSE IF o > 0 /\ o <= MAXORDINAL THEN Returned(Strftime(FromOrdinal(o), pad))
    ELSE Raised("OverflowError", <<>>)

\* the loop over formats (lines 254-269); a ValueError of strptime or of
\* replace moves on to the next format
RECURSIVE TryFormats(_, _, _, _, _)
TryFormats(a, formats, i, tdy, pad) ==
    IF i > Len(formats) THEN Raised("ValueError", a)
    ELSE LET p == Strptime(a, formats[i]) IN
         IF ~p.ok THEN TryFormats(a, formats, i + 1, tdy, pad)
         ELSE IF formats[i] \in YearReplacedFormats
              THEN IF ValidDate(tdy[1], p.date[2], p.date[3])
                   THEN Returned(Strftime(<<tdy[1], p.date[2], p.date[3]>>, pad))
                   ELSE TryFormats(a, formats, i + 1, tdy, pad)
              ELSE Returned(Strftime(p.date, pad))

\* (transform_date_one_mode: the mode flag not consulted)
transform_date_one_mode(s, ddmm, tdy, pad) ==
    IF s = <<>> THEN Returned(Strftime(tdy, pad))
    ELSE LET a == NormalizeArg(s) IN
         IF RelativeMatch(a)
         THEN IF Len(a) > 1 THEN RelativeDate(tdy, SignedToInt(Tail(a)), pad)
              ELSE Returned(Strftime(tdy, pad))
         ELSE TryFormats(a, MonthFirstFormats, 1, tdy, pad)

\* lines 215-269.  The empty sequence stands for both None and "": "not arg"
\* holds of each (line 228).
transform_date(s, ddmm, tdy, pad) ==
    IF s = <<>> THEN Returned(Strftime(tdy, pad))
    ELSE LET a == NormalizeArg(s) IN
         IF RelativeMatch(a)
         THEN IF Len(a) > 1 THEN RelativeDate(tdy, SignedToInt(Tail(a)), pad)
              ELSE Returned(Strftime(tdy, pad))
         ELSE TryFormats(a, IF ddmm THEN DayFirstFormats ELSE MonthFirstFormats, 1, tdy, pad)

---------------------------------------------------------------------------
(* Inputs of the date normaliser *)

MaxEdits == 1

TodaySet == {<<2024, 12, 30>>, <<2023, 2, 27>>}

Fields == {<<"2">>, <<"3">>, <<"0", "4">>, <<"1", "3">>, <<"2", "9">>, <<"4", "5">>}
FieldPairs == {<<<<"2">>, <<"2", "9">>>>, <<<<"2", "9">>, <<"2">>>>, <<<<"0", "4">>, <<"0", "3">>>>,
               <<<<"1", "3">>, <<"2">>>>}
Years == {<<"2", "0", "2", "4">>, <<"2", "0", "2", "3">>, <<"0", "0", "0", "5">>}
Offsets == {0, 3, 5, 60, 366, 400, 500000, 4000000}

TwoFieldExprs == {a \o <<sep>> \o b : a \in Fields, b \in Fields, sep \in {"/", "-"}}
ThreeFieldExprs ==
    UNION {{y \o <<"-">> \o p[1] \o <<"-">> \o p[2],
            p[1] \o <<"/">> \o p[2] \o <<"/">> \o y,
            p[1] \o <<"-">> \o p[2] \o <<"-">> \o y} : y \in Years, p \in FieldPairs}
RelativeExprs == {<<"t", sign>> \o NatToStr(n) : sign \in {"+", "-"}, n \in Offsets}
OtherExprs == {<<>>, <<" ">>, <<"t">>, <<"T">>, <<"T", " ", "+", " ", "5">>, <<"T", "+", "5">>,
               <<"t", "+">>, <<"t", "+", "+", "5">>, <<"t", "5">>, <<"f", "o", "o">>,
               <<"F", "o", "O">>, <<"3", "/", "4", "/", "2", "4">>,
               <<"0", "0", "0", "0", "-", "0", "1", "-", "0", "2">>,
               <<"1", "2", "/", "3", "1">>, <<"3", "/", " ", "4">>, <<"4", "/", "3", "1">>,
               <<"3", "1", "-", "4">>, <<"0", "/", "3">>, <<"3", "-", "0">>}
ExprSet == TwoFieldExprs \cup ThreeFieldExprs \cup RelativeExprs \cup OtherExprs

NotCalled == [kind |-> "none", text |-> <<>>]
NoLocation == <<"None", "None">>

---------------------------------------------------------------------------
(* The normaliser called on an expression, and the expression re-entered    *)
(* respelled, in the other mode, or as the returned text                    *)

Init ==
    /\ today \in TodaySet
    /\ zero_pad_year \in BOOLEAN
    /\ arg \in ExprSet
    /\ use_DDMMformat \in BOOLEAN
    /\ result = NotCalled
    /\ prev = [arg |-> <<>>, result |-> NotCalled]
    /\ rel = "fresh"
    /\ edits = 0
    /\ pc = "ready"
    /\ api_key = <<"k">>
    /\ latlng = NoLocation
    /\ tz_response = [kind |-> "none"]
    /\ utc_offset = [kind |-> "none"]
    /\ fetch_called = FALSE
    /\ stdout = <<>>
    /\ exception = "none"
    /\ exit_code = -1

TransformDate ==
    /\ pc = "ready"
    /\ result' = transform_date(arg, use_DDMMformat, today, zero_pad_year)
    /\ pc' = "done"
    /\ UNCHANGED <<today, zero_pad_year, arg, use_DDMMformat, prev, rel, edits>>
    /\ UNCHANGED mainVars

InsertAt(s, i, c) == SubSeq(s, 1, i) \o <<c>> \o SubSeq(s, i + 1, Len(s))
SwapCase(c) ==
    IF c = "t" THEN "T" ELSE IF c = "T" THEN "t"
    ELSE IF c = "f" THEN "F" ELSE IF c = "F" THEN "f"
    ELSE IF c = "o" THEN "O" ELSE IF c = "O" THEN "o" ELSE c

\* the user enters the same expression with one more whitespace character
InsertWhitespace ==
    /\ pc = "done" /\ rel \in {"fresh", "respelled"} /\ edits < MaxEdits
    /\ \E i \in 0..Len(arg), w \in Whitespace : arg' = InsertAt(arg, i, w)
    /\ prev' = [arg |-> arg, result |-> result] /\ result' = NotCalled /\ rel' = "respelled"
    /\ edits' = edits + 1 /\ pc' = "ready"
    /\ UNCHANGED <<today, zero_pad_year, use_DDMMformat>>
    /\ UNCHANGED mainVars

\* the user enters the same expression with one letter in the other case
ChangeCase ==
    /\ pc = "done" /\ rel \in {"fresh", "respelled"} /\ edits < MaxEdits
    /\ \E i \in 1..Len(arg) :
          /\ SwapCase(arg[i]) # arg[i]
          /\ arg' = [arg EXCEPT ![i] = SwapCase(arg[i])]
    /\ prev' = [arg |-> arg, result |-> result] /\ result' = NotCalled /\ rel' = "respelled"
    /\ edits' = edits + 1 /\ pc' = "ready"
    /\ UNCHANGED <<today, zero_pad_year, use_DDMMformat>>
    /\ UNCHANGED mainVars

\* the returned text is entered again in the same mode
Reparse ==
    /\ pc = "done" /\ rel = "fresh" /\ result.kind = "str"
    /\ arg' = result.text
    /\ prev' = [arg |-> arg, result |-> result] /\ result' = NotCalled /\ rel' = "reparse" /\ pc' = "ready"
    /\ UNCHANGED <<today, zero_pad_year, use_DDMMformat, edits>>
    /\ UNCHANGED mainVars

\* the same expression is entered again in the other mode
FlipMode ==
    /\ pc = "done" /\ rel = "fresh"
    /\ use_DDMMformat' = ~use_DDMMformat
    /\ prev' = [arg |-> arg, result |-> result] /\ result' = NotCalled /\ rel' = "flipped" /\ pc' = "ready"
    /\ UNCHANGED <<today, zero_pad_year, arg, edits>>
    /\ UNCHANGED mainVars

Next == TransformDate \/ InsertWhitespace \/ ChangeCase \/ Reparse \/ FlipMode

Spec == Init /\ [][Next]_vars

---------------------------------------------------------------------------
(* The calendar and the date grammar as the specification states them,      *)
(* written without the operators that model the code                        *)

CalLeap(y) == (y % 4 = 0 /\ y % 100 # 0) \/ y % 400 = 0
CalMonthLen(y, m) ==
    <<31, IF CalLeap(y) THEN 29 ELSE 28, 31, 30, 31, 30, 31, 31, 30, 31, 30, 31>>[m]
CalYearLen(y) == IF CalLeap(y) THEN 366 ELSE 365
CalValid(y, m, d) == y \in 1..9999 /\ m \in 1..12 /\ d >= 1 /\ d <= CalMonthLen(y, m)

\* the number of the day dt in a count of consecutive days (the Julian day
\* number of the Gregorian date)
CalDayNumber(dt) ==
    LET a == (14 - dt[2]) \div 12
        y == dt[1] + 4800 - a
        m == dt[2] + 12 * a - 3
    IN dt[3] + (153 * m + 2) \div 5 + 365 * y + y \div 4 - y \div 100 + y \div 400 - 32045

Dec2(n) == <<Digits[(n \div 10) + 1], Digits[(n % 10) + 1]>>
\* YYYY-MM-DD, zero padded, of a date of the years 1..9999
Iso(dt) == Dec2(dt[1] \div 100) \o Dec2(dt[1] % 100) \o <<"-">> \o Dec2(dt[2]) \o <<"-">> \o Dec2(dt[3])

IsIso(t) ==
    /\ Len(t) = 10 /\ t[5] = "-" /\ t[8] = "-"
    /\ \A k \in {1, 2, 3, 4, 6, 7, 9, 10} : t[k] \in Digit
\* the date an ISO text names
IsoDate(t) ==
    <<1000 * DigitVal(t[1]) + 100 * DigitVal(t[2]) + 10 * DigitVal(t[3]) + DigitVal(t[4]),
      10 * DigitVal(t[6]) + DigitVal(t[7]), 10 * DigitVal(t[9]) + DigitVal(t[10])>>

AllDigits(s) == \A k \in 1..Len(s) : s[k] \in Digit
NumVal(s) ==
    IF Len(s) = 1 THEN DigitVal(s[1])
    ELSE IF Len(s) = 2 THEN 10 * DigitVal(s[1]) + DigitVal(s[2])
    ELSE 1000 * DigitVal(s[1]) + 100 * DigitVal(s[2]) + 10 * DigitVal(s[3]) + DigitVal(s[4])

\* the expression with whitespace removed and letters lower-cased
SpecNorm(s) ==
    LET t == SelectSeq(s, LAMBDA c : c # " " /\ c # "\t")
    IN [i \in 1..Len(t) |-> IF t[i] = "T" THEN "t" ELSE IF t[i] = "F" THEN "f"
                            ELSE IF t[i] = "O" THEN "o" ELSE t[i]]

\* t([+-]digits)?
SpecRelative(e) ==
    \/ e = <<"t">>
    \/ /\ Len(e) >= 3 /\ e[1] = "t" /\ e[2] \in {"+", "-"}
       /\ AllDigits(SubSeq(e, 3, Len(e)))

NoDate == <<0, 0, 0>>

\* the three fields <<f1, f2, f3>> of e when e is f1 s f2 (f3 empty) or
\* f1 s f2 s f3 with field lengths l1, l2, l3
FieldsOf(e, s, l1, l2, l3) ==
    IF l3 = 0
    THEN IF Len(e) = l1 + 1 + l2 /\ e[l1 + 1] = s
         THEN <<SubSeq(e, 1, l1), SubSeq(e, l1 + 2, Len(e)), <<>>>>
         ELSE <<>>
    ELSE IF Len(e) = l1 + l2 + l3 + 2 /\ e[l1 + 1] = s /\ e[l1 + l2 + 2] = s
         THEN <<SubSeq(e, 1, l1), SubSeq(e, l1 + 2, l1 + l2 + 1), SubSeq(e, l1 + l2 + 3, Len(e))>>
         ELSE <<>>

\* the date candidate i of the mode reads from e, two-field candidates in the
\* year cur, or NoDate when e is not of the candidate's form or the date is
\* not a calendar date.  Candidates: 1 x/z, 2 x-z, 3 Y-x-z, 4 x/z/Y, 5 x-z-Y,
\* where x is the month and z the day in month-first mode, and x is the day
\* and z the month in day-first mode.
Candidate(e, i, ddmm, cur) ==
    LET s == IF i \in {1, 4} THEN "/" ELSE "-"
        shapes == IF i \in {1, 2} THEN {<<l1, l2, 0>> : l1 \in 1..2, l2 \in 1..2}
                  ELSE IF i = 3 THEN {<<4, l1, l2>> : l1 \in 1..2, l2 \in 1..2}
                  ELSE {<<l1, l2, 4>> : l1 \in 1..2, l2 \in 1..2}
        fits == {sh \in shapes :
                    LET f == FieldsOf(e, s, sh[1], sh[2], sh[3])
                    IN f # <<>> /\ AllDigits(f[1]) /\ AllDigits(f[2]) /\ AllDigits(f[3])}
    IN IF fits = {} THEN NoDate
       ELSE LET sh == CHOOSE x \in fits : TRUE
                f == FieldsOf(e, s, sh[1], sh[2], sh[3])
                y == IF i \in {1, 2} THEN cur ELSE IF i = 3 THEN NumVal(f[1]) ELSE NumVal(f[3])
                x == IF i = 3 THEN NumVal(f[2]) ELSE NumVal(f[1])
                z == IF i = 3 THEN NumVal(f[3]) ELSE NumVal(f[2])
                m == IF ddmm THEN z ELSE x
                d == IF ddmm THEN x ELSE z
            IN IF CalValid(y, m, d) THEN <<y, m, d>> ELSE NoDate

ValidCandidates(e, ddmm, cur) == {i \in 1..5 : Candidate(e, i, ddmm, cur) # NoDate}
Min(S) == CHOOSE x \in S : \A y \in S : x <= y

---------------------------------------------------------------------------
(* Claims about transform_date *)

TwoField(a, sep, b) == a \o <<sep>> \o b
RelExpr(sign, n) == <<"t", sign>> \o NatToStr(n)
Signed(sign, n) == IF sign = "+" THEN n ELSE 0 - n
\* text is the YYYY-MM-DD form of the calendar date k days from today
IsTodayPlus(text, k) ==
    /\ IsIso(text)
    /\ CalValid(IsoDate(text)[1], IsoDate(text)[2], IsoDate(text)[3])
    /\ CalDayNumber(IsoDate(text)) - CalDayNumber(today) = k

\* C1 as claimed: every accepted two-field expression returns the date of the
\* current year, month a and day b in month-first mode, day a and month b in
\* day-first mode.
C1_YearlessTakesCurrentYear ==
    \A a \in Fields, b \in Fields, sep \in {"/", "-"} :
        (pc = "done" /\ arg = TwoField(a, sep, b) /\ result.kind = "str")
        => result.text = Iso(IF use_DDMMformat THEN <<today[1], NumVal(b), NumVal(a)>>
                             ELSE <<today[1], NumVal(a), NumVal(b)>>)

\* C2 as claimed: for every n, "t+n" and "t-n" return today moved by n days as
\* YYYY-MM-DD, whatever the mode flag.
C2_RelativeForEveryOffset ==
    \A n \in Offsets, sign \in {"+", "-"} :
        (pc = "done" /\ arg = RelExpr(sign, n))
        => /\ result.kind = "str"
           /\ IsTodayPlus(result.text, Signed(sign, n))
           /\ rel = "flipped" => result = prev.result

\* C2 amended: whenever today moved by n days falls in the years 1000..9999,
\* "t+n" and "t-n" return that date as YYYY-MM-DD, whatever the mode flag.
C2_RelativeWithinRange ==
    \A n \in Offsets, sign \in {"+", "-"} :
        (/\ pc = "done" /\ arg = RelExpr(sign, n)
         /\ CalDayNumber(today) + Signed(sign, n) >= CalDayNumber(<<1000, 1, 1>>)
         /\ CalDayNumber(today) + Signed(sign, n) <= CalDayNumber(<<9999, 12, 31>>))
        => /\ result.kind = "str"
           /\ IsTodayPlus(result.text, Signed(sign, n))
           /\ rel = "flipped" => result = prev.result

C2_Witness ==
    /\ pc = "done" /\ today = <<2024, 12, 30>> /\ arg = <<"t", "+", "5">>
    /\ rel = "flipped"
    /\ result = Returned(<<"2", "0", "2", "5", "-", "0", "1", "-", "0", "4">>)

\* C3: a non-empty expression that, normalised, is neither of the relative
\* grammar nor a calendar date under any candidate of the mode raises
\* ValueError carrying the normalised text.
C3_InvalidRaises ==
    (/\ pc = "done" /\ arg # <<>>
     /\ ~SpecRelative(SpecNorm(arg))
     /\ ValidCandidates(SpecNorm(arg), use_DDMMformat, today[1]) = {})
    => result = Raised("ValueError", SpecNorm(arg))

C3_Witness ==
    /\ pc = "done" /\ arg = <<"1", "3", "/", "4", "5">>
    /\ result = Raised("ValueError", <<"1", "3", "/", "4", "5">>)

\* C7 as claimed: an absolute expression returns the date of the first
\* candidate of the mode that reads it as a calendar date, two-field
\* candidates as dates of the current year, and raises ValueError only when
\* no candidate does.
C7_FirstValidCandidate ==
    (/\ pc = "done" /\ arg \in TwoFieldExprs \cup ThreeFieldExprs)
    => LET c == ValidCandidates(arg, use_DDMMformat, today[1])
       IN IF c = {} THEN result = Raised("ValueError", arg)
          ELSE /\ result.kind = "str"
               /\ Len(result.text) = 10
                  => result.text = Iso(Candidate(arg, Min(c), use_DDMMformat, today[1]))

\* C8 as claimed: two expressions that differ only in letter case and
\* whitespace have the same outcome.
C8_CaseWhitespaceInsensitive ==
    (pc = "done" /\ rel = "respelled") => result = prev.result

\* C8 amended: two non-empty expressions that differ only in letter case and
\* whitespace have the same outcome.
C8_NonEmptyCaseWhitespaceInsensitive ==
    (pc = "done" /\ rel = "respelled" /\ arg # <<>> /\ prev.arg # <<>>)
    => result = prev.result

C8_Witness ==
    /\ pc = "done" /\ rel = "respelled"
    /\ prev.arg = <<"T", "+", "5">> /\ arg = <<"T", " ", "+", "5">>
    /\ result.kind = "str" /\ result = prev.result

BothModesRead(a, b) == CalValid(today[1], NumVal(a), NumVal(b)) /\ CalValid(today[1], NumVal(b), NumVal(a))
OneModeReads(a, b) == CalValid(today[1], NumVal(a), NumVal(b)) # CalValid(today[1], NumVal(b), NumVal(a))
\* whether the current mode's reading of a, b is a calendar date
ThisModeReads(a, b) ==
    IF use_DDMMformat THEN CalValid(today[1], NumVal(b), NumVal(a))
    ELSE CalValid(today[1], NumVal(a), NumVal(b))

\* C9 as claimed: for a two-field expression the two modes return different
\* dates when both readings are calendar dates, and identical results when
\* only one reading is.
C9_ModesDifferOrAgree ==
    \A a \in Fields, b \in Fields, sep \in {"/", "-"} :
        (pc = "done" /\ rel = "flipped" /\ arg = TwoField(a, sep, b))
        => /\ BothModesRead(a, b)
              => (result.kind = "str" /\ prev.result.kind = "str" /\ result # prev.result)
           /\ OneModeReads(a, b) => result = prev.result

\* C9 amended: the two modes return different dates when both readings are
\* calendar dates; when only one reading is, the mode whose reading is not a
\* calendar date raises ValueError and never returns the other mode's date.
C9_ModesDifferOrInvalidRaises ==
    \A a \in Fields, b \in Fields, sep \in {"/", "-"} :
        (pc = "done" /\ rel = "flipped" /\ arg = TwoField(a, sep, b))
        => /\ BothModesRead(a, b)
              => (result.kind = "str" /\ prev.result.kind = "str" /\ result # prev.result)
           /\ OneModeReads(a, b)
              => IF ThisModeReads(a, b) THEN prev.result = Raised("ValueError", arg)
                 ELSE result = Raised("ValueError", arg)

C9_Witness ==
    /\ pc = "done" /\ rel = "flipped" /\ arg = <<"1", "3", "/", "2">> /\ use_DDMMformat
    /\ result.kind = "str" /\ prev.result.kind = "ValueError"

\* C10 as claimed: a returned date string, entered again in the same mode,
\* is returned unchanged.
C10_RoundTrip ==
    (pc = "done" /\ rel = "reparse") => result = prev.result

\* C10 amended: in month-first mode a returned date string whose year is
\* written with four digits, entered again, is returned unchanged.
C10_RoundTripMonthFirst ==
    (pc = "done" /\ rel = "reparse" /\ ~use_DDMMformat /\ Len(arg) = 10)
    => result = prev.result

C10_Witness ==
    /\ pc = "done" /\ rel = "reparse" /\ ~use_DDMMformat
    /\ prev.arg = <<"0", "4", "-", "0", "3", "-", "2", "0", "2", "3">>
    /\ arg = <<"2", "0", "2", "3", "-", "0", "4", "-", "0", "3">>
    /\ result = Returned(arg)

---------------------------------------------------------------------------
(* get_utc_offset *)

SecondsPerHour == 3600
MinOffsetHours == -12
MaxOffsetHours == 14

\* the possible gmtOffset members of the JSON body
GmtOffsetValues ==
    {[type |-> "missing", val |-> 0], [type |-> "str", val |-> 0], [type |-> "null", val |-> 0],
     [type |-> "nan", val |-> 0]}
    \cup {[type |-> "int", val |-> v] : v \in {-43201, -43200, 0, 19800, 50400, 50401, 60000}}
TzResponses ==
    {[kind |-> "request_error", gmt |-> [type |-> "missing", val |-> 0]]}
    \cup {[kind |-> "json", gmt |-> g] : g \in GmtOffsetValues}

NoneValue == [kind |-> "None", num |-> 0, den |-> 1]
Hours(num, den) == [kind |-> "hours", num |-> num, den |-> den]
NotANumber == [kind |-> "nan", num |-> 0, den |-> 1]
RaisedIn(exc) == [kind |-> exc, num |-> 0, den |-> 1]

\* lines 181-211: the division comes before the membership test, so a body
\* without gmtOffset raises KeyError and a non-numeric one TypeError; neither
\* is a RequestException.  Every comparison with NaN is false.
get_utc_offset(resp) ==
    IF resp.kind = "request_error" THEN NoneValue
    ELSE IF resp.gmt.type = "missing" THEN RaisedIn("KeyError")
    ELSE IF resp.gmt.type \in {"str", "null"} THEN RaisedIn("TypeError")
    ELSE IF resp.gmt.type = "nan" THEN NotANumber
    ELSE LET h == Hours(resp.gmt.val, SecondsPerHour) IN
         IF h.num < MinOffsetHours * h.den \/ h.num > MaxOffsetHours * h.den THEN NoneValue
         ELSE h

---------------------------------------------------------------------------
(* main and print_sunrise_sunset_data *)

MainArgs == {<<>>, <<"t", "+", "5">>, <<"3", "/", "4">>, <<"f", "o", "o">>,
             <<"t", "+", "4", "0", "0", "0", "0", "0", "0">>}
ApiKeys == {<<>>, <<"k">>}
Coordinates == {<<51, 0>>, <<-34, 151>>}
LocationOutcomes == {"latlng", "no_latlng", "no_location", "timeout", "error"}

ReportFields == <<"first_light", "dawn", "sunrise", "sunset", "last_light">>
ReportLines == <<"date">> \o ReportFields
FetchResponses ==
    {[kind |-> k, has_results |-> FALSE, date |-> "missing", fields |-> {}] :
        k \in {"request_error", "bad_json"}}
    \cup {[kind |-> "json", has_results |-> FALSE, date |-> "missing", fields |-> {}]}
    \cup {[kind |-> "json", has_results |-> TRUE, date |-> d, fields |-> f] :
            d \in {"ok", "bad", "missing"},
            f \in SUBSET {ReportFields[i] : i \in 1..Len(ReportFields)}}

ErrApiKey == "API key is required."
ErrDate == "Error: Could not parse date"
ErrLocation == "Could not retrieve location."
ErrOffset == "Error: Could not retrieve UTC offset."
ErrFetch == "Error: Could not retrieve sunrise/sunset data"
ErrorLines == {ErrApiKey, ErrDate, ErrLocation, ErrOffset, ErrFetch}

MainInit ==
    /\ today \in TodaySet
    /\ zero_pad_year \in BOOLEAN
    /\ arg \in MainArgs
    /\ use_DDMMformat \in BOOLEAN
    /\ result = NotCalled
    /\ prev = [arg |-> <<>>, result |-> NotCalled]
    /\ rel = "fresh"
    /\ edits = 0
    /\ pc = "main"
    /\ api_key \in ApiKeys
    /\ latlng = NoLocation
    /\ tz_response = [kind |-> "none"]
    /\ utc_offset = [kind |-> "none"]
    /\ fetch_called = FALSE
    /\ stdout = <<>>
    /\ exception = "none"
    /\ exit_code = -1

\* print(line); sys.exit(1)
ExitWithLine(line) ==
    /\ stdout' = Append(stdout, line)
    /\ exit_code' = 1
    /\ exception' = "none"
    /\ pc' = "exit"

\* an exception nothing catches: the interpreter writes the traceback to
\* standard error and exits with status 1
Uncaught(exc) ==
    /\ exception' = exc
    /\ exit_code' = 1
    /\ pc' = "exit"

\* lines 44-61
MainTransformDate ==
    /\ pc = "main"
    /\ UNCHANGED <<today, zero_pad_year, arg, use_DDMMformat, prev, rel, edits>>
    /\ UNCHANGED <<api_key, latlng, tz_response, utc_offset, fetch_called>>
    /\ IF api_key = <<>>
       THEN ExitWithLine(ErrApiKey) /\ UNCHANGED result
       ELSE LET r == transform_date(arg, use_DDMMformat, today, zero_pad_year) IN
            /\ result' = r
            /\ IF r.kind = "ValueError" THEN ExitWithLine(ErrDate)
               ELSE IF r.kind = "str"
                    THEN pc' = "location" /\ UNCHANGED <<stdout, exception, exit_code>>
                    ELSE Uncaught(r.kind) /\ UNCHANGED stdout

\* lines 64-68 with get_location (lines 109-132): every failure is (None, None)
MainGetLocation ==
    /\ pc = "location"
    /\ UNCHANGED dateVars
    /\ UNCHANGED <<api_key, tz_response, utc_offset, fetch_called>>
    /\ \E o \in LocationOutcomes, c \in Coordinates :
          /\ latlng' = IF o = "latlng" THEN c ELSE NoLocation
          /\ IF o = "latlng"
             THEN pc' = "offset" /\ UNCHANGED <<stdout, exception, exit_code>>
             ELSE ExitWithLine(ErrLocation)

\* lines 71-74 with get_utc_offset (lines 135-211)
MainGetUtcOffset ==
    /\ pc = "offset"
    /\ UNCHANGED dateVars
    /\ UNCHANGED <<api_key, latlng, fetch_called>>
    /\ \E resp \in TzResponses :
          LET o == get_utc_offset(resp) IN
          /\ tz_response' = resp
          /\ utc_offset' = o
          /\ IF o.kind \in {"KeyError", "TypeError"} THEN Uncaught(o.kind) /\ UNCHANGED stdout
             ELSE IF o.kind = "None" THEN ExitWithLine(ErrOffset)
             ELSE pc' = "fetch" /\ UNCHANGED <<stdout, exception, exit_code>>

\* the report lines printed before the first result field that is missing
RECURSIVE PrintedFields(_, _)
PrintedFields(fields, i) ==
    IF i > Len(ReportFields) \/ ReportFields[i] \notin fields THEN <<>>
    ELSE <<ReportFields[i]>> \o PrintedFields(fields, i + 1)

\* line 76 with print_sunrise_sunset_data (lines 78-106).  The handler of
\* RequestException prints the error line and then reads log_enabled, a name
\* that is local to main: NameError.  requests raises a RequestException for
\* a body that is not JSON from version 2.27 on and a ValueError before.
print_sunrise_sunset_data ==
    /\ pc = "fetch"
    /\ UNCHANGED dateVars
    /\ UNCHANGED <<api_key, latlng, tz_response, utc_offset>>
    /\ fetch_called' = TRUE
    /\ \E resp \in FetchResponses, json_error_is_request_exception \in BOOLEAN :
          IF resp.kind = "request_error"
             \/ (resp.kind = "bad_json" /\ json_error_is_request_exception)
          THEN /\ stdout' = Append(stdout, ErrFetch)
               /\ Uncaught("NameError")
          ELSE IF resp.kind = "bad_json" THEN Uncaught("ValueError") /\ UNCHANGED stdout
          ELSE IF ~resp.has_results \/ resp.date = "missing"
               THEN Uncaught("KeyError") /\ UNCHANGED stdout
          ELSE IF resp.date = "bad" THEN Uncaught("ValueError") /\ UNCHANGED stdout
          ELSE LET lines == <<"date">> \o PrintedFields(resp.fields, 1) IN
               /\ stdout' = stdout \o lines
               /\ IF Len(lines) = Len(ReportLines)
                  THEN exit_code' = 0 /\ exception' = "none" /\ pc' = "exit"
                  ELSE Uncaught("KeyError")

MainNext == MainTransformDate \/ MainGetLocation \/ MainGetUtcOffset \/ print_sunrise_sunset_data

MainSpec == MainInit /\ [][MainNext]_vars

---------------------------------------------------------------------------
(* Claims about main *)

Exited == pc = "exit"

\* C4 as claimed: every run ends with exit code 0 after the six-line report,
\* or with a non-zero exit code after exactly one error line and nothing else.
C4_ReportOrOneErrorLine ==
    Exited =>
        \/ exit_code = 0 /\ stdout = ReportLines /\ exception = "none"
        \/ /\ exit_code # 0 /\ exception = "none"
           /\ Len(stdout) = 1 /\ stdout[1] \in ErrorLines

\* C5 as claimed: a run that ends in a failure has written no line of the
\* report to standard output.
C5_AllOrNothing ==
    (Exited /\ exit_code # 0) =>
        \A k \in 1..Len(stdout) : \A j \in 1..Len(ReportLines) : stdout[k] # ReportLines[j]

InRangeSeconds(g) ==
    /\ g.type = "int"
    /\ g.val >= -43200 /\ g.val <= 50400

\* C6 as claimed: get_utc_offset yields None or gmtOffset/3600 hours within
\* [-12, 14]; a missing, non-numeric or out-of-range gmtOffset yields None,
\* and main then prints the offset error and exits non-zero without
\* requesting the sunrise-sunset data.
C6_OffsetValidated ==
    tz_response.kind # "none" =>
        IF tz_response.kind = "json" /\ InRangeSeconds(tz_response.gmt)
        THEN /\ utc_offset.kind = "hours"
             /\ utc_offset.num * 3600 = tz_response.gmt.val * utc_offset.den
             /\ utc_offset.num >= -12 * utc_offset.den
             /\ utc_offset.num <= 14 * utc_offset.den
        ELSE /\ utc_offset.kind = "None"
             /\ Exited /\ exit_code # 0 /\ exception = "none"
             /\ stdout = <<ErrOffset>>
             /\ ~fetch_called

===========================================================================
